---------------------------- MODULE Spec2Model ----------------------------
(***************************************************************************)
(* A model of the allocator of src/malloc.c (my_malloc, my_calloc,         *)
(* my_realloc, my_free over one sbrk-grown arena of BlockHeaders).         *)
(*                                                                         *)
(* The machine is a flat, byte-addressed, little-endian memory.  Block     *)
(* headers live inside that memory, exactly as in the C code, so a header  *)
(* that the code places inside another block's payload is overwritten by   *)
(* whoever writes that payload.  The build modelled is the one with a      *)
(* 16-bit uintptr_t/size_t (sizeof(uintptr_t) = 2): every size and pointer *)
(* computation is done modulo 2^16, the in-use bit is bit 15.  Nothing in  *)
(* malloc.c depends on the width except through sizeof(uintptr_t): on the  *)
(* 64-bit build every number below scales with it (the header is 24 bytes, *)
(* SIZE_MAX is 2^64 - 1).                                                  *)
(*                                                                         *)
(* The environment is sbrk: it hands out the bytes above the break, in     *)
(* one piece, may refuse, and maps whole pages.  Nobody else moves the     *)
(* break.                                                                  *)
(***************************************************************************)
EXTENDS Integers, Sequences, FiniteSets, TLC

VARIABLES
    mem,      \* memory: address -> byte, the non-zero bytes only
    heap,     \* the global `BlockHeader *heap`
    brk,      \* the program break (what sbrk(0) would return)
    brk0,     \* the program break before the first call
    status,   \* "ok", or how the process ended: "segv", "hang"
    live,     \* client side: pointer -> requested size, for every pointer
              \* returned and not yet released
    last,     \* the last call: operation, arguments, result, sbrk's answer
    left,     \* client side: how many more calls the client makes
    threads,  \* client side, when several threads call: thread -> where it
              \* is in its call of my_malloc, and the pointers it holds
    locking   \* client side: the callers hold one lock around every call

vars == <<mem, heap, brk, brk0, status, live, last, left, threads, locking>>

---------------------------------------------------------------------------
(* The build: widths and the configuration of malloc.h.                    *)

SIZEOF_UINTPTR == 2
WORD == 65536                       \* 2^(8 * SIZEOF_UINTPTR)
UINTPTR_MAX == WORD - 1
NULL == 0
SBRK_FAILED == UINTPTR_MAX          \* (void*)-1

HEAP_INITIAL_SIZE == 1024
HEAP_GROW_FACTOR == 2
HEAP_ALIGNMENT == SIZEOF_UINTPTR
MOST_SIGNIFICANT_BIT_MASK == WORD \div 2
IN_USE_MASK == MOST_SIGNIFICANT_BIT_MASK
SIZE_MASK == UINTPTR_MAX - MOST_SIGNIFICANT_BIT_MASK
\* struct _BlockHeader { previous; next; size; char block[]; }
OFF_PREVIOUS == 0 * SIZEOF_UINTPTR
OFF_NEXT == 1 * SIZEOF_UINTPTR
OFF_SIZE == 2 * SIZEOF_UINTPTR
BLOCKHEADER_SIZE == 3 * SIZEOF_UINTPTR

\* The environment: the page size of the mapping behind the break, where
\* the break is before the first call (at the start of a page, or so that
\* the first HEAP_INITIAL_SIZE bytes end a page), and the highest break
\* the system grants (RLIMIT_DATA).
PAGE_SIZE == 4096
MemLow == PAGE_SIZE
MemHigh == 3 * PAGE_SIZE
InitialBreaks == {MemLow, 2 * PAGE_SIZE - HEAP_INITIAL_SIZE}
BreakLimit == MemHigh

---------------------------------------------------------------------------
(* Machine arithmetic and memory.                                          *)

U(x) == x % WORD                                  \* wrap to uintptr_t
Signed(x) == IF x >= WORD \div 2 THEN x - WORD ELSE x    \* as intptr_t
PageCeil(a) == ((a + PAGE_SIZE - 1) \div PAGE_SIZE) * PAGE_SIZE

\* A machine state: what a C function reads and writes.
\*   st  : "ok", "segv" (an access outside the mapping), "hang" (a walk
\*         that never ends)
\*   env : what sbrk answered during this call: "none", "granted", "refused"
\*   asks: how many times this call asked sbrk to move the break
Machine == [mem |-> mem, heap |-> heap, brk |-> brk, st |-> "ok", env |-> "none",
            asks |-> 0]

\* Mapped: from the initial break to the end of the page holding the break.
MappedRange(M, a, n) == n = 0 \/ (a >= brk0 /\ a + n <= PageCeil(M.brk))

\* Memory is kept as the function from the addresses written so far to
\* their bytes; every other byte of the mapping reads 0 (fresh pages are
\* zero-filled).  Normalize drops the zero bytes, so that equal memories
\* are equal functions.
Ld8(M, a) == IF a \in DOMAIN M.mem THEN M.mem[a] ELSE 0
Ld16(M, a) == Ld8(M, a) + 256 * Ld8(M, U(a + 1))
Normalize(m) == [a \in {x \in DOMAIN m : m[x] # 0} |-> m[a]]

\* An access of n bytes at a: the process dies when it leaves the mapping.
Probe(M, a, n) ==
    IF M.st = "ok" /\ ~MappedRange(M, a, n) THEN [M EXCEPT !.st = "segv"] ELSE M

St8(M, a, v) ==
    LET P == Probe(M, a, 1)
    IN  IF P.st # "ok" THEN P ELSE [P EXCEPT !.mem = (a :> (v % 256)) @@ @]

St16(M, a, v) ==
    LET P == Probe(M, a, 2)
    IN  IF P.st # "ok" THEN P
        ELSE [P EXCEPT !.mem = (a :> (v % 256)) @@ ((a + 1) :> ((v \div 256) % 256)) @@ @]

---------------------------------------------------------------------------
(* The macros of malloc.h.                                                  *)

\* ALIGN_SIZE(size): the next multiple of HEAP_ALIGNMENT, in size_t.
ALIGN_SIZE(size) ==
    IF size % HEAP_ALIGNMENT = 0 THEN size
    ELSE U(size + (HEAP_ALIGNMENT - (size % HEAP_ALIGNMENT)))

FieldSize(M, block) == Ld16(M, U(block + OFF_SIZE))
FieldNext(M, block) == Ld16(M, U(block + OFF_NEXT))
FieldPrevious(M, block) == Ld16(M, U(block + OFF_PREVIOUS))

BLOCK_SIZE(M, block) == FieldSize(M, block) % (SIZE_MASK + 1)     \* size & SIZE_MASK
BLOCK_IN_USE(M, block) == FieldSize(M, block) \div IN_USE_MASK
BLOCK_FREE(M, block) == 1 - BLOCK_IN_USE(M, block)
BLOCK_END(M, block) == U(block + BLOCKHEADER_SIZE + BLOCK_SIZE(M, block))
\* NEW_SIZE(inUse, newSize) is newSize | (inUse * IN_USE_MASK)
NEW_SIZE(inUse, newSize) ==
    IF inUse = 1 THEN (newSize % IN_USE_MASK) + IN_USE_MASK ELSE newSize
BLOCK_FROM_PTR(ptr) == U(ptr - BLOCKHEADER_SIZE + WORD)
BlockPayload(block) == U(block + BLOCKHEADER_SIZE)     \* block->block

---------------------------------------------------------------------------
(* The environment's sbrk(increment): the increment is an intptr_t.  A      *)
(* growth is granted or refused by the system (`grant`), and never past    *)
(* BreakLimit; a negative increment lowers the break, never below the      *)
(* initial one, and the pages above the new break are given back.          *)

sbrk(M, increment, grant) ==
    IF Signed(increment) = 0 THEN [M |-> M, r |-> M.brk]
    ELSE IF Signed(increment) > 0 THEN
        IF grant /\ M.brk + Signed(increment) <= BreakLimit
        THEN [M |-> [M EXCEPT !.brk = @ + Signed(increment), !.env = "granted",
                              !.asks = @ + 1], r |-> M.brk]
        ELSE [M |-> [M EXCEPT !.env = "refused", !.asks = @ + 1], r |-> SBRK_FAILED]
    ELSE
        IF M.brk + Signed(increment) >= brk0
        THEN [M |-> [M EXCEPT !.brk = @ + Signed(increment), !.env = "granted",
                              !.asks = @ + 1,
                              !.mem = [a \in {x \in DOMAIN @ :
                                                x < PageCeil(M.brk + Signed(increment))} |-> @[a]]],
              r |-> M.brk]
        ELSE [M |-> [M EXCEPT !.env = "refused", !.asks = @ + 1], r |-> SBRK_FAILED]

---------------------------------------------------------------------------
(* The static functions of malloc.c.  Each takes the machine state and     *)
(* returns the machine state after it and its return value r.              *)
(* Let(v, F) names an intermediate value: Let(e, LAMBDA x : body) is       *)
(* body with x bound to e, the local variable of the C function.           *)
(* The value e is computed once, as the C code computes it.                *)

Let(v, F(_)) == CHOOSE r \in {F(x) : x \in {v}} : TRUE
Ret(M, r) == [M |-> M, r |-> r]

RECURSIVE LastFrom(_, _, _)
LastFrom(M, block, seen) ==
    Let(Probe(M, U(block + OFF_NEXT), SIZEOF_UINTPTR), LAMBDA P :
    IF P.st # "ok" THEN Ret(P, NULL)
    ELSE IF block \in seen THEN Ret([P EXCEPT !.st = "hang"], NULL)
    ELSE IF FieldNext(P, block) = NULL THEN Ret(P, block)
    ELSE LastFrom(P, FieldNext(P, block), seen \cup {block}))

getLastBlock(M) ==
    IF M.heap = NULL THEN Ret(M, NULL) ELSE LastFrom(M, M.heap, {})

\* heap == NULL: the first growth
increaseHeapFirst(M, minSize, grant) ==
    Let(IF U(minSize + BLOCKHEADER_SIZE) > HEAP_INITIAL_SIZE
        THEN U(U(minSize + BLOCKHEADER_SIZE) * 2) ELSE HEAP_INITIAL_SIZE, LAMBDA size :
    Let(sbrk(M, HEAP_INITIAL_SIZE, grant), LAMBDA sb :
    Let([sb.M EXCEPT !.heap = sb.r], LAMBDA M1 :
    IF sb.r = SBRK_FAILED THEN Ret(M1, NULL)
    ELSE
    Let(St16(M1, U(M1.heap + OFF_SIZE), U(size - BLOCKHEADER_SIZE + WORD)), LAMBDA M2 :
    Let(St16(M2, U(M1.heap + OFF_PREVIOUS), NULL), LAMBDA M3 :
    Let(St16(M3, U(M1.heap + OFF_NEXT), NULL), LAMBDA M4 :
    Ret(M4, M1.heap)))))))

\* heap != NULL: a later growth
increaseHeapMore(M, minSize, grant) ==
    Let(getLastBlock(M), LAMBDA lb :
    IF lb.M.st # "ok" THEN Ret(lb.M, NULL)
    ELSE
    Let(lb.r, LAMBDA lastBlock :
    Let(sbrk(lb.M, U(minSize + BLOCKHEADER_SIZE), grant), LAMBDA sb :
    Let(sb.r, LAMBDA newBlock :
    IF newBlock = SBRK_FAILED THEN Ret(sb.M, NULL)
    ELSE
    Let(Probe(sb.M, U(lastBlock + OFF_SIZE), SIZEOF_UINTPTR), LAMBDA P :
    IF BLOCK_END(P, lastBlock) = newBlock /\ BLOCK_FREE(P, lastBlock) = 1
    THEN Ret(St16(P, U(lastBlock + OFF_SIZE),
                  U(FieldSize(P, lastBlock) + minSize + BLOCKHEADER_SIZE)), lastBlock)
    ELSE
    Let(St16(P, U(newBlock + OFF_SIZE), minSize), LAMBDA M1 :
    Let(St16(M1, U(lastBlock + OFF_NEXT), newBlock), LAMBDA M2 :
    Let(St16(M2, U(newBlock + OFF_PREVIOUS), lastBlock), LAMBDA M3 :
    Let(St16(M3, U(newBlock + OFF_NEXT), NULL), LAMBDA M4 :
    Ret(M4, newBlock))))))))))

increaseHeap(M, minSize, grant) ==
    IF M.heap = NULL THEN increaseHeapFirst(M, minSize, grant)
    ELSE increaseHeapMore(M, minSize, grant)

RECURSIVE FindFrom(_, _, _, _)
FindFrom(M, block, minSize, seen) ==
    IF block = NULL THEN Ret(M, NULL)
    ELSE
    Let(Probe(M, U(block + OFF_SIZE), SIZEOF_UINTPTR), LAMBDA P :
    IF P.st # "ok" THEN Ret(P, NULL)
    ELSE IF block \in seen THEN Ret([P EXCEPT !.st = "hang"], NULL)
    ELSE IF BLOCK_FREE(P, block) = 1 /\ BLOCK_SIZE(P, block) >= minSize THEN Ret(P, block)
    ELSE
    Let(Probe(P, U(block + OFF_NEXT), SIZEOF_UINTPTR), LAMBDA Q :
    IF Q.st # "ok" THEN Ret(Q, NULL)
    ELSE FindFrom(Q, FieldNext(Q, block), minSize, seen \cup {block})))

findFreeBlock(M, minSize) ==
    IF M.heap = NULL THEN Ret(M, NULL) ELSE FindFrom(M, M.heap, minSize, {})

joinBlockWithFollower(M, block) ==
    Let(Probe(M, U(block + OFF_NEXT), 2 * SIZEOF_UINTPTR), LAMBDA P :
    Let(FieldNext(P, block), LAMBDA next :
    Let(IF next = NULL THEN P ELSE Probe(P, U(next + OFF_SIZE), SIZEOF_UINTPTR), LAMBDA Q :
    IF Q.st # "ok" THEN Ret(Q, 0)
    ELSE IF next = NULL \/ BLOCK_IN_USE(Q, next) = 1 \/ BLOCK_END(Q, block) # next
    THEN Ret(Q, BLOCK_SIZE(Q, block))
    ELSE
    Let(St16(Q, U(block + OFF_SIZE),
             U(FieldSize(Q, block) + BLOCKHEADER_SIZE + BLOCK_SIZE(Q, next))), LAMBDA M1 :
    Let(Probe(M1, U(next + OFF_NEXT), SIZEOF_UINTPTR), LAMBDA M1p :
    Let(St16(M1p, U(block + OFF_NEXT), FieldNext(M1p, next)), LAMBDA M2 :
    Let(IF FieldNext(M2, block) # NULL
        THEN St16(M2, U(FieldNext(M2, block) + OFF_PREVIOUS), block) ELSE M2, LAMBDA M3 :
    Ret(M3, BLOCK_SIZE(M3, block)))))))))

\* resizeBlock cutting the block whenever a header fits in what is left
resizeBlockHeaderFits(M, block, minSize) ==
    Let(joinBlockWithFollower(M, block), LAMBDA j :
    IF j.M.st # "ok" THEN Ret(j.M, 0)
    ELSE IF j.r < ALIGN_SIZE(minSize) THEN Ret(j.M, 0)
    ELSE IF j.r < U(ALIGN_SIZE(minSize) + BLOCKHEADER_SIZE) THEN Ret(j.M, j.r)
    ELSE
    Let(St16(j.M, U(block + OFF_SIZE),
             NEW_SIZE(BLOCK_IN_USE(j.M, block), ALIGN_SIZE(minSize))), LAMBDA M1 :
    Let(BLOCK_END(M1, block), LAMBDA newBlock :
    Let(St16(M1, U(newBlock + OFF_SIZE),
             U(j.r - BLOCKHEADER_SIZE - ALIGN_SIZE(minSize) + 2 * WORD)), LAMBDA M2 :
    Let(St16(M2, U(newBlock + OFF_PREVIOUS), block), LAMBDA M3 :
    Let(Probe(M3, U(block + OFF_NEXT), SIZEOF_UINTPTR), LAMBDA M3p :
    Let(St16(M3p, U(newBlock + OFF_NEXT), FieldNext(M3p, block)), LAMBDA M4 :
    Let(St16(M4, U(block + OFF_NEXT), newBlock), LAMBDA M5 :
    Let(Probe(M5, U(newBlock + OFF_NEXT), SIZEOF_UINTPTR), LAMBDA M5p :
    Let(IF FieldNext(M5p, newBlock) # NULL
        THEN St16(M5p, U(FieldNext(M5p, newBlock) + OFF_PREVIOUS), newBlock)
        ELSE M5p, LAMBDA M6 :
    Let(Probe(M6, U(block + OFF_SIZE), SIZEOF_UINTPTR), LAMBDA M7 :
    Ret(M7, BLOCK_SIZE(M7, block)))))))))))))

resizeBlock(M, block, minSize) ==
    Let(joinBlockWithFollower(M, block), LAMBDA j :
    IF j.M.st # "ok" THEN Ret(j.M, 0)
    ELSE IF j.r < ALIGN_SIZE(minSize) THEN Ret(j.M, 0)
    ELSE IF j.r < U(ALIGN_SIZE(minSize) + BLOCKHEADER_SIZE + HEAP_ALIGNMENT) THEN Ret(j.M, j.r)
    ELSE
    Let(St16(j.M, U(block + OFF_SIZE),
             NEW_SIZE(BLOCK_IN_USE(j.M, block), ALIGN_SIZE(minSize))), LAMBDA M1 :
    Let(BLOCK_END(M1, block), LAMBDA newBlock :
    Let(St16(M1, U(newBlock + OFF_SIZE),
             U(j.r - BLOCKHEADER_SIZE - ALIGN_SIZE(minSize) + 2 * WORD)), LAMBDA M2 :
    Let(St16(M2, U(newBlock + OFF_PREVIOUS), block), LAMBDA M3 :
    Let(Probe(M3, U(block + OFF_NEXT), SIZEOF_UINTPTR), LAMBDA M3p :
    Let(St16(M3p, U(newBlock + OFF_NEXT), FieldNext(M3p, block)), LAMBDA M4 :
    Let(St16(M4, U(block + OFF_NEXT), newBlock), LAMBDA M5 :
    Let(Probe(M5, U(newBlock + OFF_NEXT), SIZEOF_UINTPTR), LAMBDA M5p :
    Let(IF FieldNext(M5p, newBlock) # NULL
        THEN St16(M5p, U(FieldNext(M5p, newBlock) + OFF_PREVIOUS), newBlock)
        ELSE M5p, LAMBDA M6 :
    Let(Probe(M6, U(block + OFF_SIZE), SIZEOF_UINTPTR), LAMBDA M7 :
    Ret(M7, BLOCK_SIZE(M7, block)))))))))))))

\* getBlock without the setting of the in-use bit
getBlockUnmarked(M, block, alignedSize) ==
    Ret(resizeBlock(M, block, alignedSize).M, block)

\* The block found or obtained is cut to size and marked in use.
getBlockUse(M, block, alignedSize) ==
    Let(resizeBlock(M, block, alignedSize), LAMBDA rs :
    Let(Probe(rs.M, U(block + OFF_SIZE), SIZEOF_UINTPTR), LAMBDA P :
    Ret(St16(P, U(block + OFF_SIZE), NEW_SIZE(1, FieldSize(P, block))), block)))

\* The first half of getBlock: the search, and the growth when it finds
\* nothing.
getBlockFind(M, minSize, grant) ==
    Let(findFreeBlock(M, ALIGN_SIZE(minSize)), LAMBDA f :
    IF f.M.st # "ok" THEN Ret(f.M, NULL)
    ELSE IF f.r # NULL THEN f
    ELSE
    Let(increaseHeap(f.M, ALIGN_SIZE(minSize), grant), LAMBDA h :
    IF h.M.st # "ok" THEN Ret(h.M, NULL) ELSE h))

getBlock(M, minSize, grant) ==
    Let(findFreeBlock(M, ALIGN_SIZE(minSize)), LAMBDA f :
    IF f.M.st # "ok" THEN Ret(f.M, NULL)
    ELSE IF f.r # NULL THEN getBlockUse(f.M, f.r, ALIGN_SIZE(minSize))
    ELSE
    Let(increaseHeap(f.M, ALIGN_SIZE(minSize), grant), LAMBDA h :
    IF h.M.st # "ok" \/ h.r = NULL THEN Ret(h.M, NULL)
    ELSE getBlockUse(h.M, h.r, ALIGN_SIZE(minSize))))

\* freeBlock leaving the block before the released one alone
freeBlockAlone(M, block) == M

\* The second half of freeBlock: the head, or the join with the previous block.
freeBlockPrevious(M, block) ==
    Let(Probe(M, U(block + OFF_PREVIOUS), SIZEOF_UINTPTR), LAMBDA P :
    IF P.st # "ok" THEN P
    ELSE IF FieldPrevious(P, block) = NULL THEN [P EXCEPT !.heap = block]
    ELSE
    Let(Probe(P, U(FieldPrevious(P, block) + OFF_SIZE), SIZEOF_UINTPTR), LAMBDA Q :
    IF Q.st # "ok" THEN Q
    ELSE IF BLOCK_FREE(Q, FieldPrevious(Q, block)) = 1
    THEN joinBlockWithFollower(Q, FieldPrevious(Q, block)).M
    ELSE Q))

freeBlock(M, block) ==
    Let(Probe(M, U(block + OFF_SIZE), SIZEOF_UINTPTR), LAMBDA P :
    IF P.st # "ok" THEN P
    ELSE
    Let(joinBlockWithFollower(St16(P, U(block + OFF_SIZE), BLOCK_SIZE(P, block)), block),
        LAMBDA j :
    IF j.M.st # "ok" THEN j.M ELSE freeBlockPrevious(j.M, block)))

\* memcpy(dst, src, n) of <string.h>.  When the two ranges overlap the
\* behaviour is undefined: the bytes end up as a copy in ascending or in
\* descending address order leaves them (`order`).  CopyFrom is the offset
\* in the source, as it was before the call, whose byte lands at offset i.
CopyOrders == {"ascending", "descending"}

CopyFrom(dst, src, n, order, i) ==
    IF order = "ascending" /\ dst > src /\ dst - src < n THEN i % (dst - src)
    ELSE IF order = "descending" /\ src > dst /\ src - dst < n
    THEN i + (src - dst) * ((n - 1 - i) \div (src - dst))
    ELSE i

memcpy(M, dst, src, n, order) ==
    Let(Probe(Probe(M, src, n), dst, n), LAMBDA P :
    IF P.st # "ok" \/ n = 0 THEN P
    ELSE [P EXCEPT !.mem =
             [a \in dst .. (dst + n - 1) |-> Ld8(M, src + CopyFrom(dst, src, n, order, a - dst))]
             @@ @])

\* The loop of my_calloc: words of sizeof(uintptr_t) from block->block up
\* to BLOCK_END(block).
ZeroBlock(M, block) ==
    Let(Probe(M, U(block + OFF_SIZE), SIZEOF_UINTPTR), LAMBDA P :
    IF P.st # "ok" THEN P
    ELSE
    Let(((BLOCK_SIZE(P, block) + SIZEOF_UINTPTR - 1) \div SIZEOF_UINTPTR) * SIZEOF_UINTPTR,
        LAMBDA n :
    Let(Probe(P, BlockPayload(block), n), LAMBDA Q :
    IF Q.st # "ok" THEN Q
    ELSE [Q EXCEPT !.mem =
             [a \in DOMAIN @ \ (BlockPayload(block) .. (BlockPayload(block) + n - 1)) |-> @[a]]])))

\* num * size in size_t
MulU(a, b) == ((a % 256) * b + 256 * (((a \div 256) * b) % WORD)) % WORD

---------------------------------------------------------------------------
(* The public functions.                                                    *)

\* my_free without the test for NULL
my_freeUntested(M, ptr) == freeBlock(M, BLOCK_FROM_PTR(ptr))

my_free(M, ptr) ==
    IF ptr = NULL THEN M ELSE freeBlock(M, BLOCK_FROM_PTR(ptr))

\* my_malloc without the test for an empty request
my_mallocUntested(M, size, grant) ==
    Let(getBlock(M, size, grant), LAMBDA g :
    IF g.M.st # "ok" \/ g.r = NULL THEN Ret(g.M, NULL)
    ELSE Ret(g.M, BlockPayload(g.r)))

my_malloc(M, size, grant) ==
    IF size = 0 THEN Ret(M, NULL)
    ELSE
    Let(getBlock(M, size, grant), LAMBDA g :
    IF g.M.st # "ok" \/ g.r = NULL THEN Ret(g.M, NULL)
    ELSE Ret(g.M, BlockPayload(g.r)))

my_calloc(M, num, size, grant) ==
    IF MulU(num, size) = 0 THEN Ret(M, NULL)
    ELSE
    Let(getBlock(M, MulU(num, size), grant), LAMBDA g :
    IF g.M.st # "ok" \/ g.r = NULL THEN Ret(g.M, NULL)
    ELSE Ret(ZeroBlock(g.M, g.r), BlockPayload(g.r)))

\* my_realloc releasing the old block when no new block can be had
reallocMoveFreeing(M, block, size, grant, order) ==
    Let(getBlock(M, size, grant), LAMBDA g :
    IF g.M.st # "ok" THEN Ret(g.M, NULL)
    ELSE IF g.r = NULL THEN Ret(freeBlock(g.M, block), NULL)
    ELSE
    Let(Probe(g.M, U(block + OFF_SIZE), SIZEOF_UINTPTR), LAMBDA P :
    Let(memcpy(P, BlockPayload(g.r), BlockPayload(block), BLOCK_SIZE(P, block), order),
        LAMBDA c :
    IF c.st # "ok" THEN Ret(c, NULL)
    ELSE Ret(freeBlock(c, block), BlockPayload(g.r)))))

\* my_realloc when the block cannot be resized where it is
reallocMove(M, block, size, grant, order) ==
    Let(getBlock(M, size, grant), LAMBDA g :
    IF g.M.st # "ok" \/ g.r = NULL THEN Ret(g.M, NULL)
    ELSE
    Let(Probe(g.M, U(block + OFF_SIZE), SIZEOF_UINTPTR), LAMBDA P :
    Let(memcpy(P, BlockPayload(g.r), BlockPayload(block), BLOCK_SIZE(P, block), order),
        LAMBDA c :
    IF c.st # "ok" THEN Ret(c, NULL)
    ELSE Ret(freeBlock(c, block), BlockPayload(g.r)))))

\* my_realloc without the test for NULL
my_reallocUntested(M, ptr, size, grant, order) ==
    IF size = 0 THEN Ret(my_free(M, ptr), NULL)
    ELSE
    Let(resizeBlock(M, BLOCK_FROM_PTR(ptr), size), LAMBDA rs :
    IF rs.M.st # "ok" THEN Ret(rs.M, NULL)
    ELSE IF rs.r > 0 THEN Ret(rs.M, ptr)
    ELSE reallocMove(rs.M, BLOCK_FROM_PTR(ptr), size, grant, order))

my_realloc(M, ptr, size, grant, order) ==
    IF ptr = NULL THEN my_malloc(M, size, grant)
    ELSE IF size = 0 THEN Ret(my_free(M, ptr), NULL)
    ELSE
    Let(resizeBlock(M, BLOCK_FROM_PTR(ptr), size), LAMBDA rs :
    IF rs.M.st # "ok" THEN Ret(rs.M, NULL)
    ELSE IF rs.r > 0 THEN Ret(rs.M, ptr)
    ELSE reallocMove(rs.M, BLOCK_FROM_PTR(ptr), size, grant, order))

---------------------------------------------------------------------------
(* The client: it calls the four public functions with pointers it owns    *)
(* (or NULL) and stores into the bytes it asked for, nowhere else.         *)

\* how many calls the client of Spec makes
MaxOps == 3

NoFn == [x \in {} |-> 0]
Without(f, x) == [y \in DOMAIN f \ {x} |-> f[y]]
With(f, x, v) == [y \in DOMAIN f \cup {x} |-> IF y = x THEN v ELSE f[y]]

Call(op, ptr, num, size, ret, M) ==
    [op |-> op, ptr |-> ptr, num |-> num, size |-> size,
     ret |-> IF M.st = "ok" THEN ret ELSE NULL, env |-> M.env, asks |-> M.asks]

\* The machine state after a call; a process that died keeps nothing.
Commit(M, newLive, call) ==
    /\ status' = M.st
    /\ IF M.st = "ok"
       THEN mem' = Normalize(M.mem) /\ heap' = M.heap /\ brk' = M.brk /\ live' = newLive
       ELSE UNCHANGED <<mem, heap, brk, live>>
    /\ last' = call
    /\ left' = left - 1
    /\ UNCHANGED <<brk0, threads, locking>>

Ready == status = "ok" /\ left > 0

Malloc(size, grant) ==
    /\ Ready
    /\ LET R == my_malloc(Machine, size, grant)
       IN  Commit(R.M, IF R.r = NULL THEN live ELSE With(live, R.r, size),
                  Call("malloc", NULL, 0, size, R.r, R.M))

Calloc(num, size, grant) ==
    /\ Ready
    /\ LET R == my_calloc(Machine, num, size, grant)
       IN  Commit(R.M, IF R.r = NULL THEN live ELSE With(live, R.r, MulU(num, size)),
                  Call("calloc", NULL, num, size, R.r, R.M))

Realloc(ptr, size, grant, order) ==
    /\ Ready
    /\ ptr = NULL \/ ptr \in DOMAIN live
    /\ LET R == my_realloc(Machine, ptr, size, grant, order)
           released == IF ptr # NULL /\ (size = 0 \/ R.r # NULL) THEN Without(live, ptr) ELSE live
       IN  Commit(R.M, IF R.r = NULL THEN released ELSE With(released, R.r, size),
                  Call("realloc", ptr, 0, size, R.r, R.M))

Free(ptr) ==
    /\ Ready
    /\ ptr = NULL \/ ptr \in DOMAIN live
    /\ LET M == my_free(Machine, ptr)
       IN  Commit(M, IF ptr = NULL THEN live ELSE Without(live, ptr),
                  Call("free", ptr, 0, 0, NULL, M))

\* The client stores the word v (or, in a one-byte allocation, a byte) at
\* offset off of an allocation it owns.
Store(ptr, off, v) ==
    /\ Ready
    /\ ptr \in DOMAIN live
    /\ off >= 0 /\ off < live[ptr]
    /\ LET M == IF off + SIZEOF_UINTPTR <= live[ptr]
                THEN St16(Machine, U(ptr + off), v) ELSE St8(Machine, U(ptr + off), v)
       IN  Commit(M, live, Call("store", ptr, off, v, NULL, M))

NoCall == [op |-> "init", ptr |-> NULL, num |-> 0, size |-> 0, ret |-> NULL, env |-> "none",
           asks |-> 0]

\* Before the first call: no arena, `heap` is NULL, the break is where the
\* system put it, and the client will make `calls` calls.
Start(calls) ==
    /\ mem = NoFn
    /\ heap = NULL
    /\ brk0 \in InitialBreaks
    /\ brk = brk0
    /\ status = "ok"
    /\ live = NoFn
    /\ last = NoCall
    /\ left = calls
    /\ threads = NoFn
    /\ locking = TRUE

Offsets(n) == {0} \cup (IF n >= 2 * SIZEOF_UINTPTR THEN {n - SIZEOF_UINTPTR} ELSE {})
Pointers == DOMAIN live \cup {NULL}

\* A client that uses all four functions: what it asks for, and what it
\* stores.  0: the empty request; 1: rounded up to HEAP_ALIGNMENT; 1018: with
\* its header exactly HEAP_INITIAL_SIZE; 1020: with its header more than
\* HEAP_INITIAL_SIZE; 65535: SIZE_MAX, which ALIGN_SIZE wraps to 0.
Sizes == {0, 1, 500, 1018, 1020, 65535}
CallocArgs == {<<2, 250>>, <<1, 65535>>, <<257, 256>>, <<256, 256>>}
Values == {65535, 1}

Init == Start(MaxOps)

Next ==
    \/ \E size \in Sizes, grant \in BOOLEAN : Malloc(size, grant)
    \/ \E a \in CallocArgs, grant \in BOOLEAN : Calloc(a[1], a[2], grant)
    \/ \E ptr \in Pointers, size \in Sizes, grant \in BOOLEAN, order \in CopyOrders :
          Realloc(ptr, size, grant, order)
    \/ \E ptr \in Pointers : Free(ptr)
    \/ \E ptr \in DOMAIN live : \E off \in Offsets(live[ptr]), v \in Values : Store(ptr, off, v)

Spec == Init /\ [][Next]_vars

\* A client whose first requests are larger than HEAP_INITIAL_SIZE, making
\* a longer run of calls: it allocates, stores into the last word of what
\* it got, releases and reallocates.  The values it stores are an odd
\* number and a number that is the address of the arena's first header
\* when the initial break is MemLow.
MaxLargeOps == 5
LargeSizes == {1022, 1024, 65535}
LargeValues == {7001, MemLow}

InitLarge == Start(MaxLargeOps)

NextLarge ==
    \/ \E size \in LargeSizes, grant \in BOOLEAN : Malloc(size, grant)
    \/ \E ptr \in DOMAIN live, size \in {0, 1024}, grant \in BOOLEAN, order \in CopyOrders :
          Realloc(ptr, size, grant, order)
    \/ \E ptr \in DOMAIN live : Free(ptr)
    \/ \E ptr \in DOMAIN live, v \in LargeValues :
          live[ptr] >= SIZEOF_UINTPTR /\ Store(ptr, live[ptr] - SIZEOF_UINTPTR, v)

SpecLarge == InitLarge /\ [][NextLarge]_vars

\* The client of the README's example: a = my_malloc(20), the client
\* fills a (its first and its last word), b = my_malloc(40),
\* c = my_malloc(30), a = my_realloc(a, 40), my_free(b), d = my_malloc(30).
\* `left` tells which call is next.
ReadmeCalls == 8
ReadmeValues == {1, 258, 4660, 65535}
ReadmeStep == ReadmeCalls - left + 1
Owned(n) == {p \in DOMAIN live : live[p] = n}

InitReadme == Start(ReadmeCalls)

NextReadme ==
    \/ ReadmeStep = 1 /\ \E grant \in BOOLEAN : Malloc(20, grant)
    \/ ReadmeStep = 2 /\ \E a \in Owned(20), v \in ReadmeValues : Store(a, 0, v)
    \/ ReadmeStep = 3 /\ \E a \in Owned(20), v \in ReadmeValues : Store(a, 18, v)
    \/ ReadmeStep = 4 /\ \E grant \in BOOLEAN : Malloc(40, grant)
    \/ ReadmeStep = 5 /\ \E grant \in BOOLEAN : Malloc(30, grant)
    \/ ReadmeStep = 6 /\ \E a \in Owned(20), grant \in BOOLEAN, order \in CopyOrders :
                            Realloc(a, 40, grant, order)
    \/ ReadmeStep = 7 /\ \E b \in Owned(40) \ {last.ret} : Free(b)
    \/ ReadmeStep = 8 /\ \E grant \in BOOLEAN : Malloc(30, grant)

SpecReadme == InitReadme /\ [][NextReadme]_vars

\* Callers in several threads.  A thread calls my_malloc and my_free on
\* the pointers it holds.  When the callers hold a lock around every call
\* (`locking`) a call is one step.  When they do not, a call of my_malloc
\* is two steps that other threads' steps can come between: getBlock up to
\* the block it found (malloc.c:177-185), and from there to the return
\* (malloc.c:187-190, 218-222).
MaxThreadCalls == 3
Threads == {1, 2}
ThreadSizes == {1, 500, 1020}

\* thread t holds, or holds no longer, the pointer ptr
Holding(t, ptr) == [threads EXCEPT ![t].got = Append(@, ptr)]
Dropping(t, i) ==
    [threads EXCEPT ![t].got = SubSeq(@, 1, i - 1) \o SubSeq(@, i + 1, Len(@))]

ThreadCommit(M, newThreads, call, calls) ==
    /\ status' = M.st
    /\ IF M.st = "ok"
       THEN mem' = Normalize(M.mem) /\ heap' = M.heap /\ brk' = M.brk /\ threads' = newThreads
       ELSE UNCHANGED <<mem, heap, brk, threads>>
    /\ last' = call
    /\ left' = left - calls
    /\ UNCHANGED <<brk0, live, locking>>

\* my_malloc(size) by thread t under the lock
ThreadMalloc(t, size, grant) ==
    /\ Ready /\ locking
    /\ threads[t].pc = "idle"
    /\ LET R == my_malloc(Machine, size, grant)
       IN  ThreadCommit(R.M, IF R.r = NULL THEN threads ELSE Holding(t, R.r),
                        Call("malloc", NULL, t, size, R.r, R.M), 1)

\* my_malloc(size) by thread t without a lock, up to the block found
ThreadSearch(t, size, grant) ==
    /\ Ready /\ ~locking
    /\ threads[t].pc = "idle"
    /\ LET R == getBlockFind(Machine, size, grant)
       IN  IF R.M.st = "ok" /\ R.r # NULL
           THEN ThreadCommit(R.M, [threads EXCEPT ![t].pc = "found", ![t].size = size,
                                                  ![t].block = R.r],
                             last, 1)
           ELSE ThreadCommit(R.M, threads, Call("malloc", NULL, t, size, NULL, R.M), 1)

\* ... and from the block found to the return
ThreadTake(t) ==
    /\ status = "ok" /\ ~locking
    /\ threads[t].pc = "found"
    /\ LET R == getBlockUse(Machine, threads[t].block, ALIGN_SIZE(threads[t].size))
       IN  ThreadCommit(R.M, [Holding(t, BlockPayload(R.r)) EXCEPT ![t].pc = "idle"],
                        Call("malloc", NULL, t, threads[t].size, BlockPayload(R.r), R.M), 0)

\* my_free by thread t of the i-th pointer it holds
ThreadFree(t, i) ==
    /\ Ready
    /\ threads[t].pc = "idle"
    /\ i \in 1 .. Len(threads[t].got)
    /\ LET M == my_free(Machine, threads[t].got[i])
       IN  ThreadCommit(M, Dropping(t, i), Call("free", threads[t].got[i], t, 0, NULL, M), 1)

InitThreads ==
    /\ mem = NoFn
    /\ heap = NULL
    /\ brk0 \in InitialBreaks
    /\ brk = brk0
    /\ status = "ok"
    /\ live = NoFn
    /\ last = NoCall
    /\ left = MaxThreadCalls
    /\ threads = [t \in Threads |-> [pc |-> "idle", size |-> 0, block |-> NULL, got |-> <<>>]]
    /\ locking \in BOOLEAN

NextThreads ==
    \/ \E t \in Threads, size \in ThreadSizes, grant \in BOOLEAN : ThreadMalloc(t, size, grant)
    \/ \E t \in Threads, size \in ThreadSizes, grant \in BOOLEAN : ThreadSearch(t, size, grant)
    \/ \E t \in Threads : ThreadTake(t)
    \/ \E t \in Threads : \E i \in 1 .. Len(threads[t].got) : ThreadFree(t, i)

SpecThreads == InitThreads /\ [][NextThreads]_vars

---------------------------------------------------------------------------
(* What is read off a state: the chain of blocks and the arena.            *)

\* The blocks reached from `heap` by next, up to NULL (or up to a header
\* outside the mapping, or a block met twice).
RECURSIVE ChainFrom(_, _)
ChainFrom(block, seen) ==
    IF block = NULL \/ block \in seen \/ ~MappedRange(Machine, block, BLOCKHEADER_SIZE)
    THEN <<>>
    ELSE <<block>> \o ChainFrom(FieldNext(Machine, block), seen \cup {block})

Chain == ChainFrom(heap, {})
ChainSet == {Chain[i] : i \in 1 .. Len(Chain)}
\* the walk ended at a NULL next
ChainEnds == Chain # <<>> /\ FieldNext(Machine, Chain[Len(Chain)]) = NULL

\* The arena is initialized once a first growth has set `heap` to a block.
Initialized == status = "ok" /\ heap # NULL /\ heap # SBRK_FAILED
\* the bytes obtained from the environment so far
ArenaSize == brk - brk0
SizeOf(block) == BLOCK_SIZE(Machine, block)
InUse(block) == BLOCK_IN_USE(Machine, block) = 1
EndOf(block) == block + BLOCKHEADER_SIZE + SizeOf(block)
Byte(a) == Ld8(Machine, U(a))
Min(a, b) == IF a < b THEN a ELSE b
Max(a, b) == IF a > b THEN a ELSE b

\* The header fields of every block of the chain, and the head.
HeapShape ==
    [head |-> heap,
     blocks |-> [b \in ChainSet |->
                   <<FieldPrevious(Machine, b), FieldNext(Machine, b), FieldSize(Machine, b)>>]]

\* The state right after a call of op that returned normally.
After(op) == status = "ok" /\ last.op = op

\* Memory after the step, read at an address computed in the step.
ByteAfter(a) == Ld8([mem |-> mem'], U(a))
InUseAfter(block) == BLOCK_IN_USE([mem |-> mem'], block) = 1
SizeAfter(block) == BLOCK_SIZE([mem |-> mem'], block)
NextAfter(block) == FieldNext([mem |-> mem'], block)

---------------------------------------------------------------------------
(* The properties.                                                          *)

\* C1 (tiling, I3): whenever the arena is initialized, the chain starts at
\* the first byte obtained from the environment, every block ends where
\* the next one starts, and the last one ends at the break: the blocks'
\* headers and payloads add up to the bytes obtained.
Tiling ==
    Initialized =>
        /\ ChainEnds
        /\ Chain[1] = brk0
        /\ \A i \in 1 .. Len(Chain) - 1 : EndOf(Chain[i]) = Chain[i + 1]
        /\ EndOf(Chain[Len(Chain)]) = brk0 + ArenaSize

\* C2 (I4): every pointer returned and not yet released is the payload
\* start of a block that is in the chain and has its in-use bit set.
LivePointersInUse ==
    status = "ok" =>
        \A p \in DOMAIN live : BLOCK_FROM_PTR(p) \in ChainSet /\ InUse(BLOCK_FROM_PTR(p))

\* C3 (I2): after every public operation no block and its successor are
\* both free.
NoAdjacentFree ==
    Initialized =>
        \A i \in 1 .. Len(Chain) - 1 : InUse(Chain[i]) \/ InUse(Chain[i + 1])

\* C4: my_malloc(size) with size > 0 returns NULL or a block whose payload
\* has at least size bytes.
AllocateGivesEnough ==
    (After("malloc") /\ last.size > 0 /\ last.ret # NULL)
        => SizeOf(BLOCK_FROM_PTR(last.ret)) >= last.size

\* C5: every pointer returned by my_malloc, my_calloc or my_realloc lies a
\* multiple of HEAP_ALIGNMENT above the arena base.
Aligned ==
    (status = "ok" /\ last.op \in {"malloc", "calloc", "realloc"} /\ last.ret # NULL)
        => (last.ret - brk0) % HEAP_ALIGNMENT = 0

\* C6: a successful my_realloc(ptr, size) of a live allocation of N bytes
\* to size > 0 returns a pointer whose first min(N, size) bytes are the
\* bytes ptr held before the call.
ReallocKeepsContent ==
    [][(After("realloc")' /\ last'.ptr # NULL /\ last'.size > 0 /\ last'.ret # NULL)
          => \A i \in 0 .. Min(live[last'.ptr], last'.size) - 1 :
                ByteAfter(last'.ret + i) = Byte(last'.ptr + i)]_vars

\* C7: when sbrk refuses the growth my_malloc asks for, my_malloc returns
\* NULL and the head and every block's header are what they were; after a
\* refused first growth the head is still NULL.
RefusedGrowthLeavesState ==
    [][(After("malloc")' /\ last'.env = "refused")
          => last'.ret = NULL /\ HeapShape' = HeapShape]_vars

CallocZeroFills ==
    (After("calloc") /\ last.ret # NULL)
        => \A i \in 0 .. last.num * last.size - 1 : Byte(last.ret + i) = 0

\* C10: my_calloc(num, size) returns NULL when num * size does not fit
\* size_t, and never a block with fewer than num * size bytes of payload.
CallocDetectsOverflow ==
    After("calloc") =>
        /\ last.num * last.size >= WORD => last.ret = NULL
        /\ last.ret # NULL => SizeOf(BLOCK_FROM_PTR(last.ret)) >= last.num * last.size

\* C11: my_malloc(0) returns NULL from any state and changes nothing: the
\* head, the break and every byte of memory (so every block's header) are
\* what they were; no block is marked or split, the arena is neither
\* created nor grown.
EmptyRequestChangesNothing ==
    [][(last'.op = "malloc" /\ last'.size = 0)
          => /\ status' = "ok" /\ last'.ret = NULL /\ last'.env = "none"
             /\ HeapShape' = HeapShape
             /\ UNCHANGED <<mem, heap, brk, live>>]_vars

\* my_malloc(0) has returned in an arena that holds an allocation and a
\* free block.
EmptyRequestReached ==
    /\ After("malloc") /\ last.size = 0
    /\ Initialized /\ live # NoFn
    /\ \E b \in ChainSet : ~InUse(b)


\* C12: my_free(NULL) is a no-op: it returns, and the head and every
\* block's size, in-use bit and links (every byte of memory) are what they
\* were.
ReleaseOfNullChangesNothing ==
    [][(last'.op = "free" /\ last'.ptr = NULL)
          => /\ status' = "ok"
             /\ HeapShape' = HeapShape
             /\ UNCHANGED <<mem, heap, brk, live>>]_vars

\* my_free(NULL) has returned in an arena that holds an allocation and a
\* free block.
ReleaseOfNullReached ==
    /\ After("free") /\ last.ptr = NULL
    /\ Initialized /\ live # NoFn
    /\ \E b \in ChainSet : ~InUse(b)

\* C13: in every state, for every size (0 included) and every answer of
\* sbrk, my_realloc(NULL, size) returns what my_malloc(size) returns and
\* leaves the memory, head and break my_malloc(size) leaves, so the same
\* chain.
ReallocOfNullIsMalloc ==
    status = "ok" =>
        \A size \in Sizes, grant \in BOOLEAN, order \in CopyOrders :
            my_realloc(Machine, NULL, size, grant, order) = my_malloc(Machine, size, grant)

\* my_realloc(NULL, size) has returned a new allocation, cut from a block
\* of an arena that held an allocation already.
ReallocOfNullReached ==
    /\ After("realloc") /\ last.ptr = NULL /\ last.size > 0
    /\ last.ret # NULL /\ last.env = "none"
    /\ last.ret \in DOMAIN live /\ DOMAIN live # {last.ret}

\* the block before and the block after `block` in the chain, or NULL
ChainBefore(block) ==
    IF \E i \in 2 .. Len(Chain) : Chain[i] = block
    THEN Chain[(CHOOSE i \in 2 .. Len(Chain) : Chain[i] = block) - 1]
    ELSE NULL
ChainAfter(block) ==
    IF \E i \in 1 .. Len(Chain) - 1 : Chain[i] = block
    THEN Chain[(CHOOSE i \in 1 .. Len(Chain) - 1 : Chain[i] = block) + 1]
    ELSE NULL

\* A block of the chain holds the first byte of ptr's header, is free, and
\* neither chain neighbour of it is free.
FreeAndCoalesced(ptr) ==
    \E b \in ChainSet :
        /\ b <= BLOCK_FROM_PTR(ptr) /\ BLOCK_FROM_PTR(ptr) < EndOf(b)
        /\ ~InUse(b)
        /\ ChainBefore(b) # NULL => InUse(ChainBefore(b))
        /\ ChainAfter(b) # NULL => InUse(ChainAfter(b))

\* C14: my_realloc(ptr, 0) with ptr a live pointer returns NULL and leaves
\* the memory and head my_free(ptr) leaves; the block of ptr is then free
\* and joined with its free neighbours: neither neighbour of the free
\* block that holds it is free.
ReallocToNothingReleases ==
    [][(After("realloc")' /\ last'.ptr # NULL /\ last'.size = 0)
          => /\ last'.ret = NULL
             /\ mem' = Normalize(my_free(Machine, last'.ptr).mem)
             /\ heap' = my_free(Machine, last'.ptr).heap
             /\ brk' = brk
             /\ FreeAndCoalesced(last.ptr)']_vars

\* the blocks of the chain that are free with a payload of at least the
\* aligned size
FreeBlocksFitting(size) ==
    {b \in ChainSet : ~InUse(b) /\ SizeOf(b) >= ALIGN_SIZE(size)}

\* C15 (first fit): when my_malloc(size) succeeds without growing the
\* arena, the block it returns is, of the blocks that were free with a
\* payload of at least the aligned size before the call, the one at the
\* lowest address.
FirstFit ==
    [][(After("malloc")' /\ last'.size > 0 /\ last'.ret # NULL /\ last'.env = "none")
          => /\ BLOCK_FROM_PTR(last'.ret) \in FreeBlocksFitting(last'.size)
             /\ \A b \in FreeBlocksFitting(last'.size) : BLOCK_FROM_PTR(last'.ret) <= b]_vars

\* the in-use bits of the chain's blocks, in chain order
ChainInUse == [i \in 1 .. Len(Chain) |-> InUse(Chain[i])]
\* the chain starts at the arena's base and each block ends where the
\* next one starts
Contiguous ==
    /\ Chain # <<>> /\ Chain[1] = brk0
    /\ \A i \in 1 .. Len(Chain) - 1 : EndOf(Chain[i]) = Chain[i + 1]
\* the README's client has made its first n calls
ReadmeAfter(n) == status = "ok" /\ left = ReadmeCalls - n

\* after a = my_realloc(a, 40): [free][b][c][a][free], a behind c
ReadmeMoved ==
    /\ ChainInUse = <<FALSE, TRUE, TRUE, TRUE, FALSE>> /\ Contiguous
    /\ last.ret = BlockPayload(Chain[4]) /\ last.ptr = BlockPayload(Chain[1])
    /\ Owned(30) = {BlockPayload(Chain[3])}
    /\ Owned(40) = {BlockPayload(Chain[2]), BlockPayload(Chain[4])}
\* after my_free(b): the old a and b are one free block, [free][c][a][free]
ReadmeMerged ==
    /\ ChainInUse = <<FALSE, TRUE, TRUE, FALSE>> /\ Contiguous
    /\ SizeOf(Chain[1]) = ALIGN_SIZE(20) + BLOCKHEADER_SIZE + ALIGN_SIZE(40)
    /\ Owned(30) = {BlockPayload(Chain[2])}
    /\ Owned(40) = {BlockPayload(Chain[3])}
\* after d = my_malloc(30): [d][free][c][a][free], d and the free block
\* after it being the two parts of the merged block
ReadmeEnd ==
    /\ ChainInUse = <<TRUE, FALSE, TRUE, TRUE, FALSE>> /\ Contiguous
    /\ last.ret = BlockPayload(Chain[1])
    /\ SizeOf(Chain[1]) = ALIGN_SIZE(30)
    /\ SizeOf(Chain[1]) + BLOCKHEADER_SIZE + SizeOf(Chain[2])
          = ALIGN_SIZE(20) + BLOCKHEADER_SIZE + ALIGN_SIZE(40)
    /\ Owned(30) = {BlockPayload(Chain[1]), BlockPayload(Chain[3])}
    /\ Owned(40) = {BlockPayload(Chain[4])}
    /\ EndOf(Chain[5]) = brk

\* C16 (the README's example): a = my_malloc(20), b = my_malloc(40),
\* c = my_malloc(30), a = my_realloc(a, 40), my_free(b), d = my_malloc(30)
\* ends with the chain [d in use][free][c in use][a in use][free]: the
\* realloc moves a behind c and the 20 bytes of a are the bytes it held,
\* the release of b merges the old a and b into one free block, and d is
\* cut from the front of that block.
ReadmeExample ==
    [][/\ ReadmeAfter(6)' =>
            /\ ReadmeMoved'
            /\ \A i \in 0 .. 19 : ByteAfter(last'.ret + i) = Byte(last'.ptr + i)
       /\ ReadmeAfter(7)' => ReadmeMerged'
       /\ ReadmeAfter(8)' => ReadmeEnd']_vars

\* The README's client has made its last call, and a holds what the
\* client stored in it.
ReadmeExampleReached ==
    /\ ReadmeAfter(8) /\ last.op = "malloc" /\ last.ret # NULL
    /\ Cardinality(DOMAIN live) = 3
    /\ \E a \in Owned(40) : Byte(a) # 0 /\ Byte(a + 18) # 0

\* the pointers held by the threads, each as its holder and its place in
\* the holder's list
Held == UNION {{<<t, i>> : i \in 1 .. Len(threads[t].got)} : t \in DOMAIN threads}
HandedOutTwice ==
    \E h1 \in Held, h2 \in Held :
        h1 # h2 /\ threads[h1[1]].got[h1[2]] = threads[h2[1]].got[h2[2]]

BlocksDisjointAndInside ==
    Initialized =>
        /\ \A b1 \in ChainSet, b2 \in ChainSet :
              (b1 # b2 /\ InUse(b1) /\ InUse(b2))
                 => EndOf(b1) <= BlockPayload(b2) \/ EndOf(b2) <= BlockPayload(b1)
        /\ \A b1 \in ChainSet, b2 \in ChainSet :
              b1 # b2 => BlockPayload(b1) <= BlockPayload(b2) \/ EndOf(b2) <= b1
        /\ \A b \in ChainSet : brk0 <= b /\ EndOf(b) <= brk

\* the arena of machine M is one free block, block, whose header and
\* payload are the bytes obtained from sbrk
OneFreeBlock(M, block) ==
    /\ M.heap = block /\ block = brk0
    /\ FieldPrevious(M, block) = NULL /\ FieldNext(M, block) = NULL
    /\ BLOCK_FREE(M, block) = 1
    /\ BLOCKHEADER_SIZE + BLOCK_SIZE(M, block) = M.brk - brk0

\* C19: while there is no arena, for every request size, a first growth
\* that sbrk grants leaves the arena as exactly one free block whose
\* header size plus payload size is the number of bytes obtained from
\* sbrk.
FirstGrowthOneBlock ==
    (status = "ok" /\ heap = NULL) =>
        \A size \in Sizes :
            increaseHeap(Machine, ALIGN_SIZE(size), TRUE).r # NULL
               => OneFreeBlock(increaseHeap(Machine, ALIGN_SIZE(size), TRUE).M,
                               increaseHeap(Machine, ALIGN_SIZE(size), TRUE).r)

\* C20: when my_malloc(size) grows an arena that exists already, the
\* bytes it obtains from sbrk are the larger of the arena's size times
\* HEAP_GROW_FACTOR and the size rounded up to HEAP_ALIGNMENT.
LaterGrowthByFactor ==
    [][(Initialized /\ After("malloc")' /\ last'.env = "granted")
          => brk' - brk = Max(ArenaSize * HEAP_GROW_FACTOR, ALIGN_SIZE(last'.size))]_vars

\* The chain of machine M, as Chain is the chain of the state.
RECURSIVE ChainIn(_, _, _)
ChainIn(M, block, seen) ==
    IF block = NULL \/ block \in seen \/ ~MappedRange(M, block, BLOCKHEADER_SIZE)
    THEN <<>>
    ELSE <<block>> \o ChainIn(M, FieldNext(M, block), seen \cup {block})
ChainOf(M) == ChainIn(M, M.heap, {})

\* the blocks `blocks` have in M the size and the in-use bit they have in
\* the state
KeptIn(M, blocks) ==
    \A b \in blocks : FieldSize(M, b) = FieldSize(Machine, b)

\* M is the state after a growth of `obtained` bytes as the claim has it.
GrownFrom(M, obtained) ==
    IF ~InUse(Chain[Len(Chain)]) /\ EndOf(Chain[Len(Chain)]) = brk
    THEN /\ ChainOf(M) = Chain
         /\ BLOCK_FREE(M, Chain[Len(Chain)]) = 1
         /\ BLOCK_SIZE(M, Chain[Len(Chain)]) = SizeOf(Chain[Len(Chain)]) + obtained
         /\ KeptIn(M, ChainSet \ {Chain[Len(Chain)]})
    ELSE /\ ChainOf(M) = Chain \o <<brk>>
         /\ BLOCK_FREE(M, brk) = 1
         /\ BLOCKHEADER_SIZE + BLOCK_SIZE(M, brk) = obtained
         /\ KeptIn(M, ChainSet)

\* my_malloc(size) would grow the arena in this state, and sbrk, asked,
\* grants
WouldGrow(size) ==
    /\ size > 0
    /\ findFreeBlock(Machine, ALIGN_SIZE(size)).M.st = "ok"
    /\ findFreeBlock(Machine, ALIGN_SIZE(size)).r = NULL
    /\ increaseHeap(Machine, ALIGN_SIZE(size), TRUE).M.st = "ok"
    /\ increaseHeap(Machine, ALIGN_SIZE(size), TRUE).r # NULL

\* C21: a successful growth of an existing arena either extends the last
\* block, when it is free and ends where the obtained bytes begin, by the
\* bytes obtained, the chain having the same blocks, or else appends one
\* free block whose header and payload are the bytes obtained; every
\* other block keeps its size, its in-use bit and its place.
LaterGrowthFrame ==
    (Initialized /\ ChainEnds) =>
        \A size \in Sizes :
            WouldGrow(size)
               => GrownFrom(increaseHeap(Machine, ALIGN_SIZE(size), TRUE).M,
                            increaseHeap(Machine, ALIGN_SIZE(size), TRUE).M.brk - brk)

\* The blocks resizeBlock is called on: the block getBlock's search finds
\* for the aligned size A, and the block of a pointer the client holds.
CutBlocks(A) ==
    {b \in ChainSet : findFreeBlock(Machine, A).M.st = "ok" /\ findFreeBlock(Machine, A).r = b}
       \cup {BLOCK_FROM_PTR(p) : p \in DOMAIN live}
\* aligned targets below the size S: the smallest, and those that leave
\* less than a header, a header, and a header and HEAP_ALIGNMENT
CutTargets(S) ==
    {A \in {HEAP_ALIGNMENT, S - HEAP_ALIGNMENT, S - BLOCKHEADER_SIZE,
            S - BLOCKHEADER_SIZE - HEAP_ALIGNMENT} : A > 0 /\ A < S /\ ALIGN_SIZE(A) = A}

\* RM is JM with `block`, of size S in JM, cut to A and the rest of it a
\* free block linked behind it
CutAndLinked(JM, S, RM, block, A) ==
    /\ BLOCK_SIZE(RM, block) = A
    /\ BLOCK_IN_USE(RM, block) = BLOCK_IN_USE(JM, block)
    /\ FieldNext(RM, block) = block + BLOCKHEADER_SIZE + A
    /\ BLOCK_FREE(RM, FieldNext(RM, block)) = 1
    /\ BLOCK_SIZE(RM, FieldNext(RM, block)) = S - A - BLOCKHEADER_SIZE
    /\ FieldPrevious(RM, FieldNext(RM, block)) = block
    /\ FieldNext(RM, FieldNext(RM, block)) = FieldNext(JM, block)
    /\ FieldNext(JM, block) # NULL
          => FieldPrevious(RM, FieldNext(JM, block)) = FieldNext(RM, block)
\* RM is JM: the block keeps its size and no block is created
NotCut(JM, RM) == Normalize(RM.mem) = Normalize(JM.mem)

\* resizeBlock(block, A) cuts the block exactly when what is left over
\* after A and a header is at least `least` bytes
CutWhenLeft(block, A, least) ==
    (/\ joinBlockWithFollower(Machine, block).M.st = "ok"
     /\ resizeBlock(Machine, block, A).M.st = "ok"
     /\ A < joinBlockWithFollower(Machine, block).r)
       => IF joinBlockWithFollower(Machine, block).r - A - BLOCKHEADER_SIZE >= least
          THEN CutAndLinked(joinBlockWithFollower(Machine, block).M,
                            joinBlockWithFollower(Machine, block).r,
                            resizeBlock(Machine, block, A).M, block, A)
          ELSE NotCut(joinBlockWithFollower(Machine, block).M,
                      resizeBlock(Machine, block, A).M)

\* the size of block once joined with its follower, where that can be read
JoinedSize(block) ==
    IF joinBlockWithFollower(Machine, block).M.st = "ok"
    THEN joinBlockWithFollower(Machine, block).r ELSE 0

Capacity(block) ==
    SizeOf(block)
      + (IF /\ FieldNext(Machine, block) # NULL
            /\ ~InUse(FieldNext(Machine, block))
            /\ EndOf(block) = FieldNext(Machine, block)
         THEN BLOCKHEADER_SIZE + SizeOf(FieldNext(Machine, block)) ELSE 0)
InUseSet == {b \in ChainSet : InUse(b)}

\* C23: my_realloc(ptr, size), ptr a live pointer and size > 0, returns
\* ptr, asks sbrk for nothing, marks no other block in use and leaves the
\* bytes the caller keeps where they are, whenever the aligned size is at
\* most the payload of ptr's block plus, when its adjacent follower is
\* free, a header and the follower's payload.
ReallocInPlace ==
    [][(/\ last'.op = "realloc" /\ last'.ptr # NULL /\ last'.size > 0
        /\ ALIGN_SIZE(last'.size) <= Capacity(BLOCK_FROM_PTR(last'.ptr)))
          => /\ status' = "ok"
             /\ last'.ret = last'.ptr /\ last'.env = "none"
             /\ InUseSet' = InUseSet
             /\ \A i \in 0 .. Min(live[last'.ptr], last'.size) - 1 :
                   ByteAfter(last'.ptr + i) = Byte(last'.ptr + i)]_vars

\* C24: when my_realloc(ptr, size) cannot resize the block where it is
\* and then fails, the join of the block with its free follower has been
\* undone: the block has the payload size it had and its follower is the
\* separate free block it was.
FailedReallocUndoesJoin ==
    [][(/\ After("realloc")' /\ last'.ptr # NULL /\ last'.size > 0 /\ last'.ret = NULL
        /\ BLOCK_FROM_PTR(last'.ptr) \in ChainSet /\ InUse(BLOCK_FROM_PTR(last'.ptr)))
          => /\ SizeAfter(BLOCK_FROM_PTR(last'.ptr)) = SizeOf(BLOCK_FROM_PTR(last'.ptr))
             /\ NextAfter(BLOCK_FROM_PTR(last'.ptr))
                   = FieldNext(Machine, BLOCK_FROM_PTR(last'.ptr))
             /\ HeapShape' = HeapShape]_vars

\* C25: whenever the arena is initialized the chain is a doubly linked
\* list in address order: it ends at a NULL next, the head's previous is
\* NULL, each block's successor has that block as its previous and starts
\* at a higher address.
LinkedInAddressOrder ==
    Initialized =>
        /\ ChainEnds
        /\ FieldPrevious(Machine, heap) = NULL
        /\ \A i \in 1 .. Len(Chain) - 1 :
              /\ FieldPrevious(Machine, Chain[i + 1]) = Chain[i]
              /\ Chain[i + 1] > Chain[i]

\* C26 (I1): whenever the arena is initialized every block's payload
\* size, the size field without the in-use bit, is a multiple of
\* HEAP_ALIGNMENT and at least HEAP_ALIGNMENT.
SizesAlignedAndPositive ==
    Initialized =>
        \A b \in ChainSet :
            SizeOf(b) % HEAP_ALIGNMENT = 0 /\ SizeOf(b) >= HEAP_ALIGNMENT

----------------------------------------------------------------------------
\* C27: every call of my_malloc terminates and asks the environment for
\* growth at most once, whether sbrk grants or refuses: after a my_malloc
\* the process is not caught in a walk that never ends, and the call made
\* at most one sbrk request.
AllocateEndsAfterOneRequest ==
    last.op = "malloc" => status # "hang" /\ last.asks <= 1

----------------------------------------------------------------------------
\* The copy of a moving my_realloc: g is what getBlock gave for the new
\* block; the length copied is the old block's size read after getBlock.
CopyLength(g, block) == BLOCK_SIZE(g.M, block)
CopyInside(g, block) ==
    (g.M.st = "ok" /\ g.r # NULL)
        => /\ CopyLength(g, block) <= BLOCK_SIZE(g.M, g.r)
           /\ CopyLength(g, block) <= FieldSize(g.M, block) % IN_USE_MASK
\* rs is what resizeBlock gave: 0 when the block cannot stay where it is.
MoveCopiesInside(rs, block, size, grant) ==
    (rs.M.st = "ok" /\ rs.r = 0) => CopyInside(getBlock(rs.M, size, grant), block)

\* C28: when my_realloc moves a block, the number of bytes it copies is at
\* most the payload size of the new block and at most the payload size of
\* the old block at the time of the copy (after the join of the failed
\* attempt to resize in place), for every live pointer and every size.
MovingCopyFits ==
    status = "ok" =>
        \A ptr \in DOMAIN live, size \in (Sizes \cup LargeSizes) \ {0}, grant \in BOOLEAN :
            MoveCopiesInside(resizeBlock(Machine, BLOCK_FROM_PTR(ptr), size),
                             BLOCK_FROM_PTR(ptr), size, grant)

----------------------------------------------------------------------------
\* The chain of M is the chain of the current state: the same head, the
\* same blocks in the same order, each with the same three header fields.
SameChain(M) ==
    /\ M.heap = heap
    /\ ChainOf(M) = Chain
    /\ \A b \in ChainSet :
          /\ FieldPrevious(M, b) = FieldPrevious(Machine, b)
          /\ FieldNext(M, b) = FieldNext(Machine, b)
          /\ FieldSize(M, b) = FieldSize(Machine, b)
\* R is what my_malloc gave; it succeeded without asking sbrk.
NoGrowth(R) == R.M.st = "ok" /\ R.r # NULL /\ R.M.asks = 0
RoundTrip(R) ==
    NoGrowth(R) => my_free(R.M, R.r).st = "ok" /\ SameChain(my_free(R.M, R.r))

\* C29: from any reachable state in which my_malloc(n), n > 0, succeeds
\* without growing the arena, my_malloc(n) followed at once by my_free of
\* the pointer returned restores the chain as it was: the same blocks at
\* the same addresses with the same sizes, flags and links.
AllocateReleaseRoundTrip ==
    status = "ok" =>
        \A n \in (Sizes \cup LargeSizes) \ {0} : RoundTrip(my_malloc(Machine, n, TRUE))

----------------------------------------------------------------------------
(* The address-linked variant, src/unnamed/part_004, with the header of    *)
(* src/unnamed/part_003: a block has no next field, its follower is the    *)
(* block that starts where it ends, and the arena is one allocation of     *)
(* the C library that realloc grows.  HEAP_INITIAL_SIZE is 1024*1024       *)
(* there, so this is a 32-bit build: sizeof(uintptr_t) is 4, the header    *)
(* is 8 bytes, the in-use bit is bit 31.  In the state, heap is            *)
(* heap.begin and brk is heap.end.                                         *)

SIZEOF_UINTPTR4 == 4
HEAP_INITIAL_SIZE4 == 1024 * 1024
HEAP_GROW_FACTOR4 == 2
HEAP_ALIGNMENT4 == 8
SIZE_MASK4 == 2147483647            \* UINTPTR_MAX ^ MOST_SIGNIFICANT_BIT_MASK
\* struct _BlockHeader { previous; size; char block[]; }
OFF_PREVIOUS4 == 0 * SIZEOF_UINTPTR4
OFF_SIZE4 == 1 * SIZEOF_UINTPTR4
BLOCKHEADER_SIZE4 == 2 * SIZEOF_UINTPTR4

\* The C library: where it puts the arena (realloc may move it from one
\* place to the other), and the largest arena it grants.
ArenaPlaces == {16 * HEAP_INITIAL_SIZE4, 32 * HEAP_INITIAL_SIZE4}
FirstPlace == 16 * HEAP_INITIAL_SIZE4
OtherPlace(p) == CHOOSE q \in ArenaPlaces : q # p
ArenaLimit == 4 * HEAP_INITIAL_SIZE4

\* A machine state of the variant.
\*   begin, end : heap.begin, heap.end
\*   base, cap  : the allocation of the C library that holds the arena
\*   st         : "ok", "segv" (an access outside the allocation), "exit"
\*                (the program called exit(1))
Machine4 == [mem |-> mem, begin |-> heap, end |-> brk, base |-> heap, cap |-> brk - heap,
             st |-> "ok"]

Probe4(M, a, n) ==
    IF M.st = "ok" /\ ~(a >= M.base /\ a + n <= M.base + M.cap)
    THEN [M EXCEPT !.st = "segv"] ELSE M

\* A word of four bytes; the size field is read as its low 31 bits and its
\* top bit.
Ld32(M, a) ==
    Ld8(M, a) + 256 * Ld8(M, a + 1) + 65536 * Ld8(M, a + 2) + 16777216 * Ld8(M, a + 3)
St32(M, a, v) ==
    Let(Probe4(M, a, SIZEOF_UINTPTR4), LAMBDA P :
    IF P.st # "ok" THEN P
    ELSE [P EXCEPT !.mem = (a :> (v % 256)) @@ ((a + 1) :> ((v \div 256) % 256))
                           @@ ((a + 2) :> ((v \div 65536) % 256))
                           @@ ((a + 3) :> ((v \div 16777216) % 256)) @@ @])

FieldPrevious4(M, block) == Ld32(M, block + OFF_PREVIOUS4)
BLOCK_SIZE4(M, block) ==
    Ld8(M, block + OFF_SIZE4) + 256 * Ld8(M, block + OFF_SIZE4 + 1)
    + 65536 * Ld8(M, block + OFF_SIZE4 + 2)
    + 16777216 * (Ld8(M, block + OFF_SIZE4 + 3) % 128)
BLOCK_IN_USE4(M, block) == Ld8(M, block + OFF_SIZE4 + 3) \div 128
BLOCK_FREE4(M, block) == 1 - BLOCK_IN_USE4(M, block)
BLOCK_NEXT4(M, block) == block + BLOCKHEADER_SIZE4 + BLOCK_SIZE4(M, block)
BLOCK_IN_RANGE4(M, block) == block < M.end
BLOCK_FROM_PTR4(ptr) == ptr - BLOCKHEADER_SIZE4
\* block->size = NEW_SIZE(inUse, size), size below 2^31
SetSize4(M, block, inUse, size) ==
    Let(Probe4(M, block + OFF_SIZE4, SIZEOF_UINTPTR4), LAMBDA P :
    IF P.st # "ok" THEN P
    ELSE [P EXCEPT !.mem = ((block + OFF_SIZE4) :> (size % 256))
                           @@ ((block + OFF_SIZE4 + 1) :> ((size \div 256) % 256))
                           @@ ((block + OFF_SIZE4 + 2) :> ((size \div 65536) % 256))
                           @@ ((block + OFF_SIZE4 + 3) :>
                                  (((size \div 16777216) % 128) + 128 * inUse)) @@ @])
\* block->size += n on the whole word: a carry out of the low 31 bits
\* flips the in-use bit.
AddSize4(M, block, n) ==
    IF BLOCK_SIZE4(M, block) > SIZE_MASK4 - n
    THEN SetSize4(M, block, 1 - BLOCK_IN_USE4(M, block),
                  BLOCK_SIZE4(M, block) - (SIZE_MASK4 - n) - 1)
    ELSE SetSize4(M, block, BLOCK_IN_USE4(M, block), BLOCK_SIZE4(M, block) + n)
ALIGN_SIZE4(size) ==
    IF size % HEAP_ALIGNMENT4 = 0 THEN size
    ELSE size + (HEAP_ALIGNMENT4 - (size % HEAP_ALIGNMENT4))

\* malloc and realloc of the C library.  A fresh arena of this size comes
\* from fresh pages and reads 0; realloc keeps the arena where it is or
\* moves it (`move`), and the old place is then unmapped.
malloc4(M, size, grant) ==
    IF grant /\ size <= ArenaLimit
    THEN Ret([M EXCEPT !.base = FirstPlace, !.cap = size], FirstPlace)
    ELSE Ret(M, NULL)
Relocate(m, from, to, n) ==
    [a \in {x - from + to : x \in {y \in DOMAIN m : y >= from /\ y < from + n}}
        |-> m[a - to + from]]
realloc4(M, ptr, size, grant, move) ==
    IF ~grant \/ size > ArenaLimit THEN Ret(M, NULL)
    ELSE IF ~move THEN Ret([M EXCEPT !.cap = size], ptr)
    ELSE Ret([M EXCEPT !.base = OtherPlace(ptr), !.cap = size,
                       !.mem = Relocate(M.mem, ptr, OtherPlace(ptr), Min(M.cap, size))],
             OtherPlace(ptr))

\* The loop of increaseHeap that rewrites the previous fields after the
\* arena may have moved; gives the last block and the address after it.
RECURSIVE UpdateHeaders4(_, _, _, _)
UpdateHeaders4(M, prev, current, limit) ==
    IF M.st # "ok" \/ current >= limit THEN [M |-> M, prev |-> prev, current |-> current]
    ELSE UpdateHeaders4(St32(M, current + OFF_PREVIOUS4, prev), current,
                        BLOCK_NEXT4(M, current), limit)

\* The end of increaseHeap: a new block behind a last block in use, or a
\* longer last block.
increaseHeapTail4(M, prev, current) ==
    IF M.st # "ok" THEN M
    ELSE IF BLOCK_IN_USE4(M, prev) = 1
    THEN SetSize4(St32(M, current + OFF_PREVIOUS4, prev), current, 1,
                  M.end - (current + BLOCKHEADER_SIZE4))
    ELSE SetSize4(M, prev, 0, M.end - (prev + BLOCKHEADER_SIZE4))

increaseHeap4(M, grant, move) ==
    IF M.begin = NULL
    THEN Let(malloc4(M, HEAP_INITIAL_SIZE4, grant), LAMBDA a :
         IF a.r = NULL THEN [a.M EXCEPT !.st = "exit"]
         ELSE [SetSize4(St32([a.M EXCEPT !.begin = a.r], a.r + OFF_PREVIOUS4, NULL),
                        a.r, 0, HEAP_INITIAL_SIZE4 - BLOCKHEADER_SIZE4)
                  EXCEPT !.end = a.r + HEAP_INITIAL_SIZE4])
    ELSE Let(M.end - M.begin, LAMBDA oldHeapSize :
         Let(realloc4(M, M.begin, oldHeapSize * HEAP_GROW_FACTOR4, grant, move), LAMBDA n :
         IF n.r = NULL THEN [n.M EXCEPT !.st = "exit"]
         ELSE
         Let(UpdateHeaders4(n.M, n.r, BLOCK_NEXT4(n.M, n.r), n.r + oldHeapSize), LAMBDA w :
         increaseHeapTail4([w.M EXCEPT !.begin = n.r,
                                       !.end = n.r + oldHeapSize * HEAP_GROW_FACTOR4],
                           w.prev, w.current))))

\* The loop of findFreeBlock: NULL when it leaves the arena.
RECURSIVE SearchFrom4(_, _, _)
SearchFrom4(M, block, size) ==
    IF ~BLOCK_IN_RANGE4(M, block) THEN NULL
    ELSE IF BLOCK_FREE4(M, block) = 1 /\ BLOCK_SIZE4(M, block) >= size THEN block
    ELSE SearchFrom4(M, BLOCK_NEXT4(M, block), size)

\* findFreeBlock grows the arena and calls itself until a block is found;
\* the C library grants `grants` more growths.
RECURSIVE findFreeBlock4(_, _, _, _)
findFreeBlock4(M, size, grants, move) ==
    IF SearchFrom4(M, M.begin, size) # NULL THEN Ret(M, SearchFrom4(M, M.begin, size))
    ELSE Let(increaseHeap4(M, grants > 0, move), LAMBDA G :
         IF G.st # "ok" THEN Ret(G, NULL)
         ELSE findFreeBlock4(G, size, grants - 1, move))

joinBlockWithFollower4(M, block) ==
    Let(BLOCK_NEXT4(M, block), LAMBDA next :
    IF ~BLOCK_IN_RANGE4(M, next) \/ BLOCK_IN_USE4(M, next) = 1
    THEN Ret(M, BLOCK_SIZE4(M, block))
    ELSE
    Let(AddSize4(M, block, BLOCKHEADER_SIZE4 + BLOCK_SIZE4(M, next)), LAMBDA J :
    Let(IF BLOCK_IN_RANGE4(J, BLOCK_NEXT4(J, block))
        THEN St32(J, BLOCK_NEXT4(J, block) + OFF_PREVIOUS4, block) ELSE J, LAMBDA K :
    Ret(K, BLOCK_SIZE4(K, block)))))

shrinkBlock4(M, block, alignedSize) ==
    Let(BLOCK_SIZE4(M, block), LAMBDA oldSize :
    IF alignedSize + BLOCKHEADER_SIZE4 >= oldSize THEN Ret(M, BLOCK_SIZE4(M, block))
    ELSE
    Let(SetSize4(M, block, BLOCK_IN_USE4(M, block), alignedSize), LAMBDA S :
    Let(BLOCK_NEXT4(S, block), LAMBDA newEmptyBlock :
    Let(St32(SetSize4(S, newEmptyBlock, 0, oldSize - BLOCKHEADER_SIZE4 - alignedSize),
             newEmptyBlock + OFF_PREVIOUS4, block), LAMBDA T :
    Ret(T, BLOCK_SIZE4(T, block))))))

getBlock4(M, size, grants, move) ==
    Let(findFreeBlock4(M, ALIGN_SIZE4(size), grants, move), LAMBDA f :
    IF f.M.st # "ok" THEN Ret(f.M, NULL)
    ELSE
    Let(shrinkBlock4(f.M, f.r, ALIGN_SIZE4(size)).M, LAMBDA S :
    Ret(SetSize4(S, f.r, 1, BLOCK_SIZE4(S, f.r)), f.r)))

freeBlock4(M, block) ==
    Let(Probe4(M, block, BLOCKHEADER_SIZE4), LAMBDA P :
    IF P.st # "ok" THEN P
    ELSE
    Let(joinBlockWithFollower4(SetSize4(P, block, 0, BLOCK_SIZE4(P, block)), block).M,
        LAMBDA J :
    Let(FieldPrevious4(J, block), LAMBDA previous :
    IF J.st # "ok" \/ previous = NULL THEN J
    ELSE
    Let(Probe4(J, previous, BLOCKHEADER_SIZE4), LAMBDA Q :
    IF Q.st # "ok" THEN Q
    ELSE IF BLOCK_FREE4(Q, previous) = 1
    THEN AddSize4(Q, previous, BLOCKHEADER_SIZE4 + BLOCK_SIZE4(Q, block))
    ELSE Q))))

resizeBlock4(M, block, size) ==
    Let(BLOCK_SIZE4(M, block), LAMBDA oldSize :
    IF ALIGN_SIZE4(size) = oldSize THEN Ret(M, block)
    ELSE
    Let(joinBlockWithFollower4(M, block), LAMBDA j :
    IF j.M.st # "ok" THEN Ret(j.M, NULL)
    ELSE IF ALIGN_SIZE4(size) < j.r
    THEN Ret(shrinkBlock4(j.M, block, ALIGN_SIZE4(size)).M, block)
    ELSE Ret(shrinkBlock4(j.M, block, oldSize).M, NULL)))

my_malloc4(M, size, grants, move) ==
    Let(getBlock4(M, size, grants, move), LAMBDA g :
    IF g.M.st # "ok" \/ g.r = NULL THEN Ret(g.M, NULL)
    ELSE Ret(g.M, g.r + BLOCKHEADER_SIZE4))

\* memcpy of the variant's my_realloc, over the bytes written so far.
memcpy4(M, dst, src, n, order) ==
    Let(Probe4(Probe4(M, src, n), dst, n), LAMBDA P :
    IF P.st # "ok" \/ n = 0 THEN P
    ELSE IF dst + n <= src \/ src + n <= dst
    THEN [P EXCEPT !.mem =
             [a \in {x \in DOMAIN M.mem : x < dst \/ x >= dst + n}
                    \cup {x - src + dst : x \in {y \in DOMAIN M.mem : y >= src /\ y < src + n}}
                |-> IF a >= dst /\ a < dst + n THEN M.mem[a - dst + src] ELSE M.mem[a]]]
    ELSE [P EXCEPT !.mem =
             [a \in dst .. (dst + n - 1) |-> Ld8(M, src + CopyFrom(dst, src, n, order, a - dst))]
             @@ @])

\* The second half of my_realloc: the block is looked up again at
\* (BlockHeader*)heap.begin + blockOffset, pointer arithmetic in units of
\* the header, and copied to a new block.
reallocMove4(M, block, oldSize, size, grants, move, order) ==
    Let(block - M.begin, LAMBDA blockOffset :
    Let(getBlock4(M, size, grants, move), LAMBDA g :
    IF g.M.st # "ok" \/ g.r = NULL THEN Ret(g.M, NULL)
    ELSE
    Let(g.M.begin + blockOffset * BLOCKHEADER_SIZE4, LAMBDA restored :
    Let(memcpy4(g.M, g.r + BLOCKHEADER_SIZE4, restored + BLOCKHEADER_SIZE4, oldSize, order),
        LAMBDA c :
    IF c.st # "ok" THEN Ret(c, NULL)
    ELSE Ret(freeBlock4(c, restored), g.r + BLOCKHEADER_SIZE4)))))

my_realloc4(M, ptr, size, grants, move, order) ==
    IF ptr = NULL THEN my_malloc4(M, size, grants, move)
    ELSE
    Let(Probe4(M, BLOCK_FROM_PTR4(ptr), BLOCKHEADER_SIZE4), LAMBDA P :
    IF P.st # "ok" THEN Ret(P, NULL)
    ELSE
    Let(resizeBlock4(P, BLOCK_FROM_PTR4(ptr), size), LAMBDA rs :
    IF rs.M.st # "ok" THEN Ret(rs.M, NULL)
    ELSE IF rs.r # NULL THEN Ret(rs.M, ptr)
    ELSE reallocMove4(rs.M, BLOCK_FROM_PTR4(ptr), BLOCK_SIZE4(P, BLOCK_FROM_PTR4(ptr)),
                      size, grants, move, order)))

my_free4(M, ptr) ==
    IF ptr = NULL THEN M ELSE freeBlock4(M, BLOCK_FROM_PTR4(ptr))

\* The client of the variant: it allocates, reallocates and releases what
\* it owns; a request of HEAP_INITIAL_SIZE bytes makes the arena grow.
MaxLinkedCalls == 5
MaxGrants == 1
LinkedSizes == {1, 40, HEAP_INITIAL_SIZE4}

Call4(op, ptr, size, ret, M) ==
    [op |-> op, ptr |-> ptr, size |-> size, ret |-> IF M.st = "ok" THEN ret ELSE NULL]

Commit4(M, newLive, call) ==
    /\ status' = M.st
    /\ IF M.st = "ok"
       THEN mem' = Normalize(M.mem) /\ heap' = M.begin /\ brk' = M.end /\ live' = newLive
       ELSE UNCHANGED <<mem, heap, brk, live>>
    /\ last' = call
    /\ left' = left - 1
    /\ UNCHANGED <<brk0, threads, locking>>

Malloc4(size, grants, move) ==
    /\ Ready
    /\ LET R == my_malloc4(Machine4, size, grants, move)
       IN  Commit4(R.M, IF R.r = NULL THEN live ELSE With(live, R.r, size),
                   Call4("malloc", NULL, size, R.r, R.M))

Realloc4(ptr, size, grants, move, order) ==
    /\ Ready
    /\ ptr = NULL \/ ptr \in DOMAIN live
    /\ LET R == my_realloc4(Machine4, ptr, size, grants, move, order)
       IN  Commit4(R.M, IF R.r = NULL THEN live ELSE With(Without(live, ptr), R.r, size),
                   Call4("realloc", ptr, size, R.r, R.M))

Free4(ptr) ==
    /\ Ready
    /\ ptr = NULL \/ ptr \in DOMAIN live
    /\ LET M == my_free4(Machine4, ptr)
       IN  Commit4(M, IF ptr = NULL THEN live ELSE Without(live, ptr),
                   Call4("free", ptr, 0, NULL, M))

InitLinked ==
    /\ mem = NoFn
    /\ heap = NULL
    /\ brk = NULL
    /\ brk0 = NULL
    /\ status = "ok"
    /\ live = NoFn
    /\ last = Call4("init", NULL, 0, NULL, Machine4)
    /\ left = MaxLinkedCalls
    /\ threads = NoFn
    /\ locking = TRUE

NextLinked ==
    \/ \E size \in LinkedSizes, grants \in 0 .. MaxGrants, move \in BOOLEAN :
          Malloc4(size, grants, move)
    \/ \E ptr \in DOMAIN live, size \in LinkedSizes, grants \in 0 .. MaxGrants,
          move \in BOOLEAN, order \in CopyOrders :
          Realloc4(ptr, size, grants, move, order)
    \/ \E ptr \in DOMAIN live : Free4(ptr)

SpecLinked == InitLinked /\ [][NextLinked]_vars

\* The blocks of the variant's arena in address order.
RECURSIVE BlocksFrom4(_, _)
BlocksFrom4(M, block) ==
    IF ~BLOCK_IN_RANGE4(M, block) THEN <<>>
    ELSE <<block>> \o BlocksFrom4(M, BLOCK_NEXT4(M, block))
Blocks4 == BlocksFrom4(Machine4, heap)

\* C30: in the variant of src/unnamed/part_004, after any sequence of
\* my_malloc, my_realloc and my_free, the previous field of every block is
\* the header of the block right before it in address order, and NULL for
\* the first block.
PreviousIsPredecessor ==
    status = "ok" =>
        \A i \in 1 .. Len(Blocks4) :
            FieldPrevious4(Machine4, Blocks4[i]) = IF i = 1 THEN NULL ELSE Blocks4[i - 1]

----------------------------------------------------------------------------
(* findFreeBlock of the variant, step by step: one call of my_malloc is    *)
(* the search loop, then, for as long as the loop finds nothing, a growth  *)
(* and the search again.  The C library grants every growth up to          *)
(* ArenaLimit.  `threads` holds the call in progress: where it is (pc),    *)
(* the size asked for and the aligned size searched for.                   *)

MaxRetryCalls == 3
RetrySizes == {1, HEAP_INITIAL_SIZE4 - BLOCKHEADER_SIZE4, HEAP_INITIAL_SIZE4}
TheCaller == 1
InCall == threads # NoFn

\* getBlock after findFreeBlock has returned: cut the block and mark it.
getBlockUse4(M, block, alignedSize) ==
    Let(shrinkBlock4(M, block, alignedSize).M, LAMBDA S :
    SetSize4(S, block, 1, BLOCK_SIZE4(S, block)))

\* The client calls my_malloc(size).
RetryBegin(size) ==
    /\ Ready /\ ~InCall
    /\ threads' = (TheCaller :> [pc |-> "search", asked |-> size,
                                 size |-> ALIGN_SIZE4(size)])
    /\ left' = left - 1
    /\ UNCHANGED <<mem, heap, brk, brk0, status, live, last, locking>>

\* The loop of findFreeBlock ends without a block.
RetryMiss ==
    /\ status = "ok" /\ InCall /\ threads[TheCaller].pc = "search"
    /\ SearchFrom4(Machine4, heap, threads[TheCaller].size) = NULL
    /\ threads' = [threads EXCEPT ![TheCaller].pc = "grow"]
    /\ UNCHANGED <<mem, heap, brk, brk0, status, live, last, left, locking>>

\* The loop of findFreeBlock finds a block: the rest of getBlock and of
\* my_malloc.
RetryHit ==
    /\ status = "ok" /\ InCall /\ threads[TheCaller].pc = "search"
    /\ \E block \in {SearchFrom4(Machine4, heap, threads[TheCaller].size)} :
          /\ block # NULL
          /\ \E M \in {getBlockUse4(Machine4, block, threads[TheCaller].size)} :
                /\ status' = M.st
                /\ mem' = Normalize(M.mem) /\ heap' = M.begin /\ brk' = M.end
                /\ live' = With(live, block + BLOCKHEADER_SIZE4,
                                threads[TheCaller].asked)
                /\ last' = Call4("malloc", NULL, threads[TheCaller].asked,
                                 block + BLOCKHEADER_SIZE4, M)
          /\ threads' = NoFn
          /\ UNCHANGED <<brk0, left, locking>>

RetrySearch == RetryMiss \/ RetryHit

\* increaseHeap() and the call of findFreeBlock again; exit(1) when the C
\* library has no more to give.
RetryGrow(move) ==
    /\ status = "ok" /\ InCall /\ threads[TheCaller].pc = "grow"
    /\ \E G \in {increaseHeap4(Machine4, TRUE, move)} :
          /\ status' = G.st
          /\ IF G.st = "ok"
             THEN /\ mem' = Normalize(G.mem) /\ heap' = G.begin /\ brk' = G.end
                  /\ threads' = [threads EXCEPT ![TheCaller].pc = "search"]
             ELSE UNCHANGED <<mem, heap, brk, threads>>
    /\ UNCHANGED <<brk0, live, last, left, locking>>

RetryFree(ptr) ==
    /\ ~InCall
    /\ Free4(ptr)

InitRetry ==
    /\ mem = NoFn
    /\ heap = NULL
    /\ brk = NULL
    /\ brk0 = NULL
    /\ status = "ok"
    /\ live = NoFn
    /\ last = Call4("init", NULL, 0, NULL, Machine4)
    /\ left = MaxRetryCalls
    /\ threads = NoFn
    /\ locking = TRUE

NextRetry ==
    \/ \E size \in RetrySizes : RetryBegin(size)
    \/ RetrySearch
    \/ \E move \in BOOLEAN : RetryGrow(move)
    \/ \E ptr \in DOMAIN live : RetryFree(ptr)

\* A call in progress goes on: the search loop runs and increaseHeap is
\* called when the loop ends without a block.
SpecRetry ==
    /\ InitRetry /\ [][NextRetry]_vars
    /\ WF_vars(RetrySearch)
    /\ WF_vars(\E move \in BOOLEAN : RetryGrow(move))

\* The C library still grants two growths of the arena.
TwoGrowthsGranted ==
    (brk - heap) * HEAP_GROW_FACTOR4 * HEAP_GROW_FACTOR4 <= ArenaLimit
\* a call in progress with two growths still granted
Searching == status = "ok" /\ InCall /\ TwoGrowthsGranted
Returned ==
    /\ status = "ok" /\ ~InCall
    /\ last.op = "malloc" /\ last.ret # NULL
    /\ BLOCK_SIZE4(Machine4, BLOCK_FROM_PTR4(last.ret)) >= ALIGN_SIZE4(last.size)

\* C31: in the variant of src/unnamed/part_004, while the C library grants
\* every growth, a call of findFreeBlock returns after finitely many
\* growths a block of at least the size asked for, also when the last
\* block of the arena is in use at the time of the growth: a call in
\* progress with two growths still granted leads to the call's return.
SearchReturns == Searching ~> Returned

=============================================================================
